---- MODULE Spec2Model ----
(***************************************************************************)
(* FlashMind: the DatabaseService of src/db.ts (decks, cards and review    *)
(* logs in an in-memory SQLite database that is exported as one blob into   *)
(* a key-value slot after every mutation) and its SM-2 style scheduler.     *)
(*                                                                         *)
(* Representation choices                                                  *)
(*  - ease_factor is kept in exact hundredths (2.5 is 250, 1.3 is 130);     *)
(*    every step of the code is a multiple of 0.02.  The doubles of the     *)
(*    code give the same intervals as the exact hundredths for every        *)
(*    sequence of up to six reviews of a new card (from the seventh review  *)
(*    on a product that is a half in hundredths may fall below the half in  *)
(*    doubles); the bounds below stay within six.                           *)
(*  - timestamps are milliseconds, counted from the first instant the       *)
(*    model observes (T0) instead of from the epoch.                        *)
(*  - a JavaScript value that may be null is a record [has, v].             *)
(*  - a binary string / base64 text is a sequence of character codes:       *)
(*    0..63 are the base64 alphabet, 64 is '=', anything else is a          *)
(*    character outside the alphabet.                                       *)
(*  - the JSON text given to importDeck is modelled by the value JSON.parse *)
(*    makes of it (or by the fact that it does not parse).                  *)
(*  - "if (!this.db) await this.init()" is the step InitDb taken before.    *)
(*  - createCard reads the clock twice in one statement; the second read    *)
(*    may fall into the next millisecond.  Specifications that are not      *)
(*    about this keep the clock still during the call (now' = now).         *)
(*  - the user interface awaits every call of the store before it makes the *)
(*    next one, except for the rating buttons of a study session and for    *)
(*    handlers started from different components.  While serial is TRUE a   *)
(*    handler runs from its first statement to its return in one step (the  *)
(*    write of save() has completed when the step ends).  While serial is   *)
(*    FALSE a handler runs up to its await in one step, the write it handed *)
(*    to localforage waits in pending, and the handler returns in the step  *)
(*    that completes or rejects that write.                                 *)
(***************************************************************************)
EXTENDS Integers, Sequences, FiniteSets, TLC

VARIABLES
    dbOpen,        \* this.db !== null
    isReady,       \* this.isReady
    foreign_keys,  \* PRAGMA foreign_keys of the open connection
    decks,         \* table decks : id -> row
    cards,         \* table cards : id -> row
    logs,          \* table logs  : id -> row
    seq,           \* sqlite_sequence (AUTOINCREMENT) of the three tables
    stored,        \* the localforage slot DB_KEY
    now,           \* Date.now()
    lastOp,        \* the last handler call and its outcome
    serial,        \* every call is awaited before the next one starts
    pending,       \* the localforage.setItem calls in flight, oldest first
    slotNo,        \* which export the slot holds (exports are counted)
    lost,          \* a write was rejected and no caller was told
    initCalls,     \* the callers of the init() calls waiting for getItem
    queue,         \* StudySession: the cards loaded at the start (their ids)
    currentIndex,  \* StudySession: the position in queue, counted from 0
    isFlipped,     \* StudySession: the answer is shown, with the rating buttons
    loading,       \* StudySession: the queue is not loaded yet
    sm2            \* interval, ease_factor and reviews of a card followed
                   \* through reviews without the clock

vars == <<dbOpen, isReady, foreign_keys, decks, cards, logs, seq, stored, now, lastOp,
          serial, pending, slotNo, lost, initCalls, queue, currentIndex, isFlipped,
          loading, sm2>>

\* the state outside the handlers of DatabaseService
client == <<initCalls, queue, currentIndex, isFlipped, loading, sm2>>

(***************************************************************************)
(* Bounds of the exploration                                               *)
(***************************************************************************)
MaxDecks == 1
MaxCards == 2
MaxLogs == 1
MaxBundleDecks == 2
MaxBundleCards == 2
MaxBundleLogs == 1
MaxDays == 1
MaxDueCards == 3
MaxDueLogs == 2
MaxDueDays == 2
MaxReviews == 3
MaxInterval == 15
MaxSchedDays == 7
MaxEaseReviews == 7
MaxInFlight == 2
MaxExports == 6
MaxAsyncDecks == 2
MaxAsyncCards == 2
MaxAsyncLogs == 2
MaxCatCards == 2
MaxCatLogs == 1
MaxCatDays == 1
MaxFailDecks == 1
MaxFailCards == 2
MaxFailLogs == 2
MaxSm2Reviews == 4
MaxStudyCards == 2
MaxInits == 2
MaxRaceDecks == 2

(***************************************************************************)
(* Program constants                                                       *)
(***************************************************************************)
DayMs == 24 * 60 * 60 * 1000
EaseDefault == 250
EaseFloor == 130
EaseFail == 20
T0 == 1000

Max(a, b) == IF a >= b THEN a ELSE b
Min(a, b) == IF a <= b THEN a ELSE b

\* variant: halves go down
RoundHalfDown(n) == (n + 49) \div 100

\* Math.round of n / 100 for n >= 0: halves go up
RoundHundredths(n) == (n + 50) \div 100

(***************************************************************************)
(* JavaScript values                                                       *)
(***************************************************************************)
Null == [has |-> FALSE, v |-> <<>>]
Some(x) == [has |-> TRUE, v |-> x]

\* truthiness of a Uint8Array | null : every object is truthy, also an empty one
TruthyBytes(m) == m.has
\* truthiness of a string | null : the empty string is falsy
TruthyString(m) == m.has /\ m.v # <<>>
\* x || null
OrNull(m) == IF TruthyBytes(m) THEN m ELSE Null

(***************************************************************************)
(* Binary-safe text encoding (u8ToBase64 / base64ToU8)                     *)
(***************************************************************************)
CHUNK_SIZE == 8192
PadChar == 64

\* window.btoa on a binary string (a sequence of char codes 0..255)
RECURSIVE Btoa(_)
Btoa(b) ==
    IF Len(b) = 0 THEN <<>>
    ELSE IF Len(b) = 1 THEN
        <<b[1] \div 4, (b[1] % 4) * 16, PadChar, PadChar>>
    ELSE IF Len(b) = 2 THEN
        <<b[1] \div 4, (b[1] % 4) * 16 + (b[2] \div 16), (b[2] % 16) * 4, PadChar>>
    ELSE
        <<b[1] \div 4, (b[1] % 4) * 16 + (b[2] \div 16),
          (b[2] % 16) * 4 + (b[3] \div 64), b[3] % 64>>
        \o Btoa(SubSeq(b, 4, Len(b)))

\* the loop of u8ToBase64: String.fromCharCode over chunks of CHUNK_SIZE bytes
RECURSIVE BinaryOf(_, _)
BinaryOf(u8, i) ==
    IF i > Len(u8) THEN <<>>
    ELSE SubSeq(u8, i, Min(i + CHUNK_SIZE - 1, Len(u8))) \o BinaryOf(u8, i + CHUNK_SIZE)

u8ToBase64(u8) == Btoa(BinaryOf(u8, 1))

\* window.atob: trailing padding of a string whose length is a multiple of 4
\* is dropped; what is left must be alphabet characters only and must not
\* have length 1 modulo 4
StripPad(s) ==
    IF Len(s) % 4 = 0 /\ Len(s) > 0 /\ s[Len(s)] = PadChar
    THEN IF s[Len(s) - 1] = PadChar THEN SubSeq(s, 1, Len(s) - 2)
                                    ELSE SubSeq(s, 1, Len(s) - 1)
    ELSE s

AtobOk(s) ==
    LET d == StripPad(s) IN
    /\ Len(d) % 4 # 1
    /\ \A i \in 1..Len(d) : d[i] \in 0..63

RECURSIVE AtobData(_)
AtobData(d) ==
    IF Len(d) < 2 THEN <<>>
    ELSE IF Len(d) = 2 THEN
        <<d[1] * 4 + (d[2] \div 16)>>
    ELSE IF Len(d) = 3 THEN
        <<d[1] * 4 + (d[2] \div 16), (d[2] % 16) * 16 + (d[3] \div 4)>>
    ELSE
        <<d[1] * 4 + (d[2] \div 16), (d[2] % 16) * 16 + (d[3] \div 4),
          (d[3] % 4) * 64 + d[4]>>
        \o AtobData(SubSeq(d, 5, Len(d)))

Atob(s) == AtobData(StripPad(s))

\* base64ToU8 (only called on strings atob accepts; otherwise it throws)
base64ToU8(s) == [i \in 1..Len(Atob(s)) |-> Atob(s)[i]]

(***************************************************************************)
(* The database and the durable slot                                       *)
(***************************************************************************)
NoRows == [i \in {} |-> 0]
NoSeq == [decks |-> 0, cards |-> 0, logs |-> 0]
NoSnapshot == [present |-> FALSE, description |-> TRUE, decks |-> NoRows,
               cards |-> NoRows, logs |-> NoRows, seq |-> NoSeq]

\* db.export(): the bytes of the whole database (description: the table decks
\* has the column description)
Export(d, c, l, s) ==
    [present |-> TRUE, description |-> TRUE, decks |-> d, cards |-> c, logs |-> l,
     seq |-> s]

\* the database of a version of the application that had no deck descriptions
LegacySnapshot == [Export(NoRows, NoRows, NoRows, NoSeq) EXCEPT !.description = FALSE]

\* the row set of a table without the rows in gone
Without(t, gone) == [i \in (DOMAIN t) \ gone |-> t[i]]
\* a table with one more row
WithRow(t, id, row) == [i \in (DOMAIN t) \cup {id} |-> IF i = id THEN row ELSE t[i]]

CardsOfDeck(c, deckId) == {i \in DOMAIN c : c[i].deck_id = deckId}
LogsOfCards(l, ids) == {i \in DOMAIN l : l[i].card_id \in ids}

NoOp == [op |-> "none", id |-> 0, rating |-> 0, ok |-> TRUE, saved |-> FALSE,
         src |-> 0, out |-> 0]
Called(op, id, rating, ok, saved, src, out) ==
    [op |-> op, id |-> id, rating |-> rating, ok |-> ok, saved |-> saved,
     src |-> src, out |-> out]

\* no bundle travels with a write
NoDoc == [kind |-> "none", hasName |-> FALSE, name |-> "", description |-> "",
          version |-> 0, exported_at |-> 0, cardsKind |-> "absent", cards |-> <<>>]

\* the number of the next export: exports are counted from the one in the slot
NextNo ==
    1 + (IF pending = <<>> THEN slotNo ELSE Max(slotNo, pending[Len(pending)].no))

\* one localforage.setItem(DB_KEY, data) in flight: the exported bytes, whether
\* a handler awaits it, the call that awaits it, and the bundle an importDeck
\* call goes on with after the save of its createDeck
Write(snap, awaited, call, doc) ==
    [snap |-> snap, no |-> NextNo, awaited |-> awaited, call |-> call, doc |-> doc]

\* no init() call is waiting; StudySession is in the state its useState calls
\* give it; the card followed is a new card
NoSm2 == [interval |-> 0, ease_factor |-> EaseDefault, reviews |-> 0, ratings |-> <<>>]
NoClient ==
    /\ initCalls = <<>>
    /\ queue = <<>>
    /\ currentIndex = 0
    /\ isFlipped = FALSE
    /\ loading = TRUE
    /\ sm2 = NoSm2

Init ==
    /\ dbOpen = FALSE
    /\ isReady = FALSE
    /\ foreign_keys = FALSE
    /\ decks = NoRows
    /\ cards = NoRows
    /\ logs = NoRows
    /\ seq = NoSeq
    /\ stored = NoSnapshot
    /\ now = T0
    /\ lastOp = NoOp
    /\ serial = TRUE
    /\ pending = <<>>
    /\ slotNo = 0
    /\ lost = FALSE
    /\ NoClient

\* init(): load the slot, or create the tables and save them without awaiting
\* the save; switch the foreign keys on; try the migration.  On a database
\* this version created the ALTER TABLE fails (the column exists) and the
\* failure is swallowed.  On an older database it adds the column and the
\* save is awaited inside the try block; its export puts the connection back
\* to PRAGMA foreign_keys = OFF.
initFromGetItem(caller) ==
    /\ dbOpen' = TRUE
    /\ IF ~stored.present
       THEN /\ decks' = NoRows
            /\ cards' = NoRows
            /\ logs' = NoRows
            /\ seq' = NoSeq
            /\ foreign_keys' = TRUE
            /\ isReady' = TRUE
            /\ lastOp' = Called("init", 0, 0, TRUE, TRUE, caller, 0)
            /\ IF serial
               THEN /\ stored' = Export(NoRows, NoRows, NoRows, NoSeq)
                    /\ pending' = pending
               ELSE /\ stored' = stored
                    /\ pending' = Append(pending,
                                     Write(Export(NoRows, NoRows, NoRows, NoSeq),
                                           FALSE, NoOp, NoDoc))
       ELSE /\ decks' = stored.decks
            /\ cards' = stored.cards
            /\ logs' = stored.logs
            /\ seq' = stored.seq
            /\ IF stored.description
               THEN /\ foreign_keys' = TRUE
                    /\ isReady' = TRUE
                    /\ lastOp' = Called("init", 0, 0, TRUE, FALSE, caller, 0)
                    /\ UNCHANGED <<stored, pending>>
               ELSE /\ foreign_keys' = FALSE
                    /\ lastOp' = Called("init", 0, 0, TRUE, TRUE, caller, 0)
                    /\ IF serial
                       THEN /\ stored' = Export(decks', cards', logs', seq')
                            /\ pending' = pending
                            /\ isReady' = TRUE
                       ELSE /\ stored' = stored
                            /\ pending' = Append(pending,
                                             Write(Export(decks', cards', logs', seq'),
                                                   TRUE, lastOp', NoDoc))
                            /\ isReady' = FALSE
    /\ UNCHANGED <<now, serial, slotNo, lost>>

\* init() called and awaited alone: "if (this.isReady) return", then the
\* awaits of initSqlJs and getItem, then the rest (caller 0: init() itself)
InitDb ==
    /\ ~isReady
    /\ initFromGetItem(0)
    /\ UNCHANGED client

\* init() up to its awaits (initSqlJs, getItem): the call has passed
\* "if (this.isReady) return" and waits; caller is 0 for init() called from
\* outside and 1 for createDeck, which calls it "if (!this.db)"
initStart(caller) ==
    /\ ~isReady
    /\ caller # 0 => ~dbOpen
    /\ initCalls' = Append(initCalls, caller)
    /\ UNCHANGED <<dbOpen, isReady, foreign_keys, decks, cards, logs, seq, stored, now,
                   lastOp, serial, pending, slotNo, lost>>
    /\ UNCHANGED <<queue, currentIndex, isFlipped, loading, sm2>>

\* getItem resolves for the init() call that has waited longest, and the
\* call goes on with what the slot holds
initResume ==
    /\ initCalls # <<>>
    /\ initFromGetItem(Head(initCalls))
    /\ initCalls' = Tail(initCalls)
    /\ UNCHANGED <<queue, currentIndex, isFlipped, loading, sm2>>

\* the page is reloaded: the module-level singleton is constructed anew, the
\* writes in flight are gone and only the slot survives
Reload ==
    /\ dbOpen
    /\ dbOpen' = FALSE
    /\ isReady' = FALSE
    /\ foreign_keys' = FALSE
    /\ decks' = NoRows
    /\ cards' = NoRows
    /\ logs' = NoRows
    /\ seq' = NoSeq
    /\ lastOp' = NoOp
    /\ pending' = <<>>
    /\ initCalls' = <<>>
    /\ queue' = <<>>
    /\ currentIndex' = 0
    /\ isFlipped' = FALSE
    /\ loading' = TRUE
    /\ UNCHANGED <<stored, now, serial, slotNo, lost, sm2>>

\* the clock
Tick(ms) ==
    /\ now' = now + ms
    /\ UNCHANGED <<dbOpen, isReady, foreign_keys, decks, cards, logs, seq, stored, lastOp,
                   serial, pending, slotNo, lost>>
    /\ UNCHANGED client

\* save(): export the database and hand the bytes to localforage; the caller
\* awaits the write.  Database.export() of sql.js closes the connection and
\* opens the file again, so the connection is back to the default
\* PRAGMA foreign_keys = OFF afterwards.
Save(d, c, l, s) ==
    /\ foreign_keys' = FALSE
    /\ IF serial
       THEN /\ stored' = Export(d, c, l, s)
            /\ UNCHANGED <<pending, slotNo>>
       ELSE /\ pending' = Append(pending, Write(Export(d, c, l, s), TRUE, lastOp', NoDoc))
            /\ UNCHANGED <<stored, slotNo>>

\* a handler path that does not reach save()
NoSave == UNCHANGED <<stored, foreign_keys, pending, slotNo>>

(***************************************************************************)
(* Decks                                                                   *)
(***************************************************************************)
createDeck(name, description) ==
    /\ dbOpen
    /\ LET id == seq.decks + 1 IN
       /\ decks' = WithRow(decks, id, [id |-> id, name |-> name,
                                       description |-> description,
                                       created_at |-> now])
       /\ seq' = [seq EXCEPT !.decks = id]
       /\ lastOp' = Called("createDeck", 0, 0, TRUE, TRUE, 0, id)
       /\ Save(decks', cards, logs, seq')
    /\ UNCHANGED <<dbOpen, isReady, cards, logs, now, serial, lost>>
    /\ UNCHANGED client

\* variant: the cards with deck_id = id are deleted by a statement of their own
CardsDeletedByHand(id) == CardsOfDeck(cards, id)

\* the cards ON DELETE CASCADE removes with the deck: those of the deleted
\* row, while PRAGMA foreign_keys is ON
CascadedCards(id) ==
    IF foreign_keys /\ id \in DOMAIN decks THEN CardsOfDeck(cards, id) ELSE {}

\* DELETE FROM decks WHERE id = ?  with ON DELETE CASCADE on cards.deck_id and
\* logs.card_id, which SQLite applies only while PRAGMA foreign_keys is ON
deleteDeck(id) ==
    /\ dbOpen
    /\ lastOp' = Called("deleteDeck", id, 0, TRUE, TRUE, 0, 0)
    /\ LET goneCards == CascadedCards(id)
           goneLogs == LogsOfCards(logs, goneCards)
       IN /\ decks' = Without(decks, {id})
          /\ cards' = Without(cards, goneCards)
          /\ logs' = Without(logs, goneLogs)
          /\ Save(decks', cards', logs', seq)
    /\ UNCHANGED <<dbOpen, isReady, seq, now, serial, lost>>
    /\ UNCHANGED client

(***************************************************************************)
(* Cards                                                                   *)
(***************************************************************************)
\* the rows with ids in S, in rowid order
RECURSIVE ByRowid(_, _)
ByRowid(c, S) ==
    IF S = {} THEN <<>>
    ELSE LET m == CHOOSE i \in S : \A j \in S : i <= j
         IN <<c[m]>> \o ByRowid(c, S \ {m})

\* variant: the ORDER BY clause of getDecks is left out
ByRowidOnly(d, S) == ByRowid(d, S)

\* the rows with ids in S, ORDER BY created_at DESC (equal keys in rowid order)
RECURSIVE ByCreatedDesc(_, _)
ByCreatedDesc(d, S) ==
    IF S = {} THEN <<>>
    ELSE LET m == CHOOSE i \in S : \A j \in S :
                      \/ d[i].created_at > d[j].created_at
                      \/ d[i].created_at = d[j].created_at /\ i <= j
         IN <<d[m]>> \o ByCreatedDesc(d, S \ {m})

\* one row of getDecks: the deck and its four correlated COUNT(*) subqueries
DeckCounts(row, c, t) ==
    LET own == {i \in DOMAIN c : c[i].deck_id = row.id} IN
    [id |-> row.id, name |-> row.name, description |-> row.description,
     created_at |-> row.created_at,
     card_count |-> Cardinality(own),
     due_count |-> Cardinality({i \in own : c[i].next_review_due <= t}),
     new_count |-> Cardinality({i \in own : c[i].reviews = 0}),
     learned_count |-> Cardinality({i \in own : c[i].reviews > 0})]

\* getDecks() at time t
getDecks(d, c, t) ==
    LET rows == ByCreatedDesc(d, DOMAIN d)
    IN [k \in 1..Len(rows) |-> DeckCounts(rows[k], c, t)]

\* variant: the ORDER BY clause is left out
ByDueUnordered(c, S) == ByRowid(c, S)

\* the rows with ids in S, ORDER BY next_review_due ASC (equal keys in rowid order)
RECURSIVE ByDue(_, _)
ByDue(c, S) ==
    IF S = {} THEN <<>>
    ELSE LET m == CHOOSE i \in S : \A j \in S :
                      \/ c[i].next_review_due < c[j].next_review_due
                      \/ c[i].next_review_due = c[j].next_review_due /\ i <= j
         IN <<c[m]>> \o ByDue(c, S \ {m})

\* SELECT * FROM cards WHERE deck_id = ?
getCards(c, deckId) == ByRowid(c, CardsOfDeck(c, deckId))

\* variant: the comparison is strict
DueFilterStrict(c, deckId, t) == {i \in CardsOfDeck(c, deckId) : c[i].next_review_due < t}

\* WHERE deck_id = ? AND next_review_due <= ?
DueFilter(c, deckId, t) == {i \in CardsOfDeck(c, deckId) : c[i].next_review_due <= t}

\* SELECT * FROM cards WHERE deck_id = ? AND next_review_due <= ? ORDER BY next_review_due ASC
getDueCards(c, deckId, t) == ByDue(c, DueFilter(c, deckId, t))

\* the row both createCard and importDeck insert
NewCard(id, deckId, ft, fi, bt, bi, t) ==
    [id |-> id, deck_id |-> deckId, front_text |-> ft, front_image |-> fi,
     back_text |-> bt, back_image |-> bi, created_at |-> t,
     next_review_due |-> t, interval |-> 0, ease_factor |-> EaseDefault, reviews |-> 0]

\* the INSERT violates FOREIGN KEY(deck_id) REFERENCES decks(id): only checked
\* while PRAGMA foreign_keys is ON
InsertRejected(deckId) == foreign_keys /\ deckId \notin DOMAIN decks

\* what the second of two Date.now() calls in one statement can return when
\* the first returned t: the millisecond may have passed
SecondRead(t) == {t, t + 1}

\* the values bound to the INSERT of createCard: created_at is the first
\* Date.now() of the statement and next_review_due the second
InsertedRow(card, id, t, due) ==
    [NewCard(id, card.deck_id, card.front_text, OrNull(card.front_image),
             card.back_text, OrNull(card.back_image), t)
        EXCEPT !.next_review_due = due]

createCard(card) ==
    /\ dbOpen
    /\ IF InsertRejected(card.deck_id)
       THEN /\ lastOp' = Called("createCard", 0, 0, FALSE, FALSE, card.deck_id, 0)
            /\ UNCHANGED <<cards, seq, now>>
            /\ NoSave
       ELSE \E due \in SecondRead(now) :
            LET id == seq.cards + 1 IN
            /\ cards' = WithRow(cards, id, InsertedRow(card, id, now, due))
            /\ seq' = [seq EXCEPT !.cards = id]
            /\ now' = due
            /\ lastOp' = Called("createCard", 0, 0, TRUE, TRUE, card.deck_id, id)
            /\ Save(decks, cards', logs, seq')
    /\ UNCHANGED <<dbOpen, isReady, decks, logs, serial, lost>>
    /\ UNCHANGED client

\* variant: the statement writes every column of the Card it is given
UpdatedRowAllColumns(row, card) ==
    [row EXCEPT !.front_text = card.front_text,
                !.front_image = OrNull(card.front_image),
                !.back_text = card.back_text,
                !.back_image = OrNull(card.back_image),
                !.next_review_due = card.next_review_due,
                !.interval = card.interval,
                !.ease_factor = card.ease_factor,
                !.reviews = card.reviews]

\* SET front_text = ?, front_image = ?, back_text = ?, back_image = ?
UpdatedRow(row, card) ==
    [row EXCEPT !.front_text = card.front_text,
                !.front_image = OrNull(card.front_image),
                !.back_text = card.back_text,
                !.back_image = OrNull(card.back_image)]

\* UPDATE cards SET front_text, front_image, back_text, back_image WHERE id = ?
updateCard(card) ==
    /\ dbOpen
    /\ cards' = [i \in DOMAIN cards |->
                    IF i = card.id THEN UpdatedRow(cards[i], card) ELSE cards[i]]
    /\ lastOp' = Called("updateCard", card.id, 0, TRUE, TRUE, 0, 0)
    /\ Save(decks, cards', logs, seq)
    /\ UNCHANGED <<dbOpen, isReady, decks, logs, seq, now, serial, lost>>
    /\ UNCHANGED client

\* the logs ON DELETE CASCADE removes with the card: those of the deleted row,
\* while PRAGMA foreign_keys is ON
CascadedLogs(id) ==
    IF foreign_keys /\ id \in DOMAIN cards THEN LogsOfCards(logs, {id}) ELSE {}

\* DELETE FROM cards WHERE id = ?  with ON DELETE CASCADE on logs.card_id
deleteCard(id) ==
    /\ dbOpen
    /\ lastOp' = Called("deleteCard", id, 0, TRUE, TRUE, 0, 0)
    /\ LET goneLogs == CascadedLogs(id)
       IN /\ cards' = Without(cards, {id})
          /\ logs' = Without(logs, goneLogs)
          /\ Save(decks, cards', logs', seq)
    /\ UNCHANGED <<dbOpen, isReady, decks, seq, now, serial, lost>>
    /\ UNCHANGED client

(***************************************************************************)
(* Spaced repetition (SM-2 inspired)                                       *)
(***************************************************************************)
\* the mapping of the 1..4 scale to the quality q of SM-2
Quality(rating) ==
    IF rating = 4 THEN 5 ELSE IF rating = 3 THEN 4 ELSE IF rating = 2 THEN 3 ELSE 0

\* 0.1 - (5 - q) * (0.08 + (5 - q) * 0.02), in hundredths
EaseDelta(q) == 10 - (5 - q) * (8 + (5 - q) * 2)

\* the interval of the rating !== 1 branch
PassInterval(card) ==
    IF card.reviews = 0 THEN 1
    ELSE IF card.reviews = 1 THEN 6
    ELSE RoundHundredths(card.interval * card.ease_factor)

\* Math.max(1.3, ease_factor - 0.2)
FailEase(ease) == Max(EaseFloor, ease - EaseFail)

\* variant: the floor of the rating !== 1 branch is left out
PassEaseNoFloor(ease, rating) == ease + EaseDelta(Quality(rating))

\* variant: the ease factor is also kept from rising above its default
PassEaseCapped(ease, rating) ==
    Min(EaseDefault, Max(EaseFloor, ease + EaseDelta(Quality(rating))))

\* ease_factor + (...); if (ease_factor < 1.3) ease_factor = 1.3
PassEase(ease, rating) ==
    LET e == ease + EaseDelta(Quality(rating))
    IN IF e < EaseFloor THEN EaseFloor ELSE e

\* variant: a failed review keeps the interval
KeepIntervalOnFail(card, rating) ==
    IF rating = 1 THEN card.interval ELSE PassInterval(card)

NextInterval(card, rating) == IF rating = 1 THEN 0 ELSE PassInterval(card)
NextEase(card, rating) ==
    IF rating = 1 THEN FailEase(card.ease_factor) ELSE PassEase(card.ease_factor, rating)

\* now + interval * 24 * 60 * 60 * 1000
NextDue(t, interval) == t + interval * DayMs

\* variant: only a review that passes is counted
NextReviewsOnPass(card, rating) ==
    IF rating = 1 THEN card.reviews ELSE card.reviews + 1

\* UPDATE cards SET ... reviews = reviews + 1
NextReviews(card, rating) == card.reviews + 1

\* the SM-2 block of reviewCard on "let { interval, ease_factor, reviews } =
\* card", with reviews as the UPDATE leaves it; the ratings given are kept
Sm2Step(card, rating) ==
    [interval |-> NextInterval(card, rating),
     ease_factor |-> NextEase(card, rating),
     reviews |-> NextReviews(card, rating),
     ratings |-> Append(card.ratings, rating)]

\* variant: the scheduling is computed from the card as the slot holds it
SelectCardDurable(cardId) ==
    IF stored.present /\ cardId \in DOMAIN stored.cards
    THEN stored.cards[cardId] ELSE cards[cardId]

\* SELECT * FROM cards WHERE id = ?
SelectCard(cardId) == cards[cardId]

\* variant: the UPDATE names the deck instead of the card
UpdateWhereDeck(cardId) == CardsOfDeck(cards, cards[cardId].deck_id)

\* UPDATE cards SET ... WHERE id = ?
UpdateWhere(cardId) == {cardId}

reviewCard(cardId, rating) ==
    /\ dbOpen
    /\ IF cardId \notin DOMAIN cards
       THEN /\ lastOp' = Called("reviewCard", cardId, rating, TRUE, FALSE, 0, 0)
            /\ UNCHANGED <<cards, logs, seq>>
            /\ NoSave
       ELSE LET card == SelectCard(cardId)
                interval == NextInterval(card, rating)
                ease == NextEase(card, rating)
                logId == seq.logs + 1
            IN /\ cards' = [i \in DOMAIN cards |->
                               IF i \in UpdateWhere(cardId)
                               THEN [cards[i] EXCEPT
                                        !.next_review_due = NextDue(now, interval),
                                        !.interval = interval,
                                        !.ease_factor = ease,
                                        !.reviews = NextReviews(cards[i], rating)]
                               ELSE cards[i]]
               /\ logs' = WithRow(logs, logId, [id |-> logId, card_id |-> cardId,
                                               rating |-> rating, reviewed_at |-> now])
               /\ seq' = [seq EXCEPT !.logs = logId]
               /\ lastOp' = Called("reviewCard", cardId, rating, TRUE, TRUE, 0, logId)
               /\ Save(decks, cards', logs', seq')
    /\ UNCHANGED <<dbOpen, isReady, decks, now, serial, lost>>
    /\ UNCHANGED client

(***************************************************************************)
(* Export / Import                                                         *)
(***************************************************************************)
\* c.front_image ? this.u8ToBase64(c.front_image) : null
EncodeImage(m) == IF TruthyBytes(m) THEN Some(u8ToBase64(m.v)) ELSE Null
\* card.front_image ? this.base64ToU8(card.front_image) : null
DecodeImage(m) == IF TruthyString(m) THEN Some(base64ToU8(m.v)) ELSE Null

ExportCard(c) ==
    [isObject |-> TRUE, front_text |-> c.front_text, back_text |-> c.back_text,
     front_image |-> EncodeImage(c.front_image),
     back_image |-> EncodeImage(c.back_image)]

\* the document exportDeck stringifies, as JSON.parse gives it back
ExportDoc(d, c, id, t) ==
    LET rows == getCards(c, id) IN
    [kind |-> "object", hasName |-> TRUE, name |-> d[id].name,
     description |-> d[id].description, version |-> 1, exported_at |-> t,
     cardsKind |-> "array", cards |-> [i \in 1..Len(rows) |-> ExportCard(rows[i])]]

\* variant: the shape test looks at the name only
DocRejectedNameOnly(doc) ==
    \/ doc.kind # "object"
    \/ ~doc.hasName
    \/ doc.name = ""

\* JSON.parse throws, data.name of null throws, or the shape test fails
DocRejected(doc) ==
    \/ doc.kind # "object"
    \/ ~doc.hasName
    \/ doc.name = ""
    \/ doc.cardsKind # "array"

\* stmt.run of one entry throws: the entry is null, or atob rejects an image text
EntryFails(e) ==
    \/ ~e.isObject
    \/ TruthyString(e.front_image) /\ ~AtobOk(e.front_image.v)
    \/ TruthyString(e.back_image) /\ ~AtobOk(e.back_image.v)

ImportFails(doc) == \E i \in 1..Len(doc.cards) : EntryFails(doc.cards[i])

ImportedCard(e, id, deckId, t) ==
    NewCard(id, deckId, e.front_text, DecodeImage(e.front_image),
            e.back_text, DecodeImage(e.back_image), t)

\* the table after COMMIT
ImportedCards(c, entries, first, deckId, t) ==
    [i \in (DOMAIN c) \cup (first .. first + Len(entries) - 1) |->
        IF i \in DOMAIN c THEN c[i]
        ELSE ImportedCard(entries[i - first + 1], i, deckId, t)]

\* the row of createDeck(`${data.name} (Import)`, data.description || "")
ImportDeckRow(doc, deckId, t) ==
    [id |-> deckId, name |-> doc.name \o " (Import)",
     description |-> doc.description, created_at |-> t]

\* src tags the call with the file the caller picked: the export of deck src,
\* 0 for a file that is no bundle, -1 for a bundle with an entry that fails
importDeck(doc, src) ==
    /\ dbOpen
    /\ IF DocRejected(doc)
       THEN /\ lastOp' = Called("importDeck", 0, 0, FALSE, FALSE, src, 0)
            /\ UNCHANGED <<decks, cards, seq>>
            /\ NoSave
       ELSE LET deckId == seq.decks + 1
                first == seq.cards + 1
            IN \* createDeck(`${data.name} (Import)`, data.description || "") and its save
               /\ decks' = WithRow(decks, deckId, ImportDeckRow(doc, deckId, now))
               /\ IF ImportFails(doc)
                  THEN \* ROLLBACK, throw: only the deck and its snapshot remain
                       /\ cards' = cards
                       /\ seq' = [seq EXCEPT !.decks = deckId]
                       /\ lastOp' = Called("importDeck", 0, 0, FALSE, TRUE, src, deckId)
                  ELSE \* COMMIT, save
                       /\ cards' = ImportedCards(cards, doc.cards, first, deckId, now)
                       /\ seq' = [seq EXCEPT !.decks = deckId,
                                             !.cards = seq.cards + Len(doc.cards)]
                       /\ lastOp' = Called("importDeck", 0, 0, TRUE, TRUE, src, deckId)
               /\ Save(decks', cards', logs, seq')
    /\ UNCHANGED <<dbOpen, isReady, logs, now, serial, lost>>
    /\ UNCHANGED client

(***************************************************************************)
(* Writes in flight (serial = FALSE)                                       *)
(***************************************************************************)
\* importDeck up to the await of its createDeck
importStart(doc, src) ==
    /\ dbOpen
    /\ IF DocRejected(doc)
       THEN /\ lastOp' = Called("importDeck", 0, 0, FALSE, FALSE, src, 0)
            /\ UNCHANGED <<decks, seq>>
            /\ NoSave
       ELSE LET deckId == seq.decks + 1 IN
            /\ decks' = WithRow(decks, deckId, ImportDeckRow(doc, deckId, now))
            /\ seq' = [seq EXCEPT !.decks = deckId]
            /\ lastOp' = Called("importDeck", 0, 0, TRUE, TRUE, src, deckId)
            /\ foreign_keys' = FALSE
            /\ pending' = Append(pending,
                             Write(Export(decks', cards, logs, seq'), TRUE, lastOp', doc))
            /\ UNCHANGED <<stored, slotNo>>
    /\ UNCHANGED <<dbOpen, isReady, cards, logs, now, serial, lost>>
    /\ UNCHANGED client

\* importDeck from the return of its createDeck on: the transaction, and on
\* COMMIT the save; rest are the other writes in flight
importResume(e, rest) ==
    IF ImportFails(e.doc)
    THEN \* ROLLBACK, throw
         /\ lastOp' = [e.call EXCEPT !.ok = FALSE]
         /\ pending' = rest
         /\ UNCHANGED <<cards, seq, foreign_keys>>
    ELSE /\ cards' = ImportedCards(cards, e.doc.cards, seq.cards + 1, e.call.out, now)
         /\ seq' = [seq EXCEPT !.cards = seq.cards + Len(e.doc.cards)]
         /\ lastOp' = e.call
         /\ foreign_keys' = FALSE
         /\ pending' = Append(rest, Write(Export(decks, cards', logs, seq'),
                                          TRUE, e.call, NoDoc))

\* variant: the write started last completes first
Newest(q) == Len(q)

\* the write localforage completes next: writes to one key of one store
\* complete in the order they were made
Oldest(q) == 1

Drop(q, k) == SubSeq(q, 1, k - 1) \o SubSeq(q, k + 1, Len(q))

\* handleRate after "await db.reviewCard(card.id, rating)": setIsFlipped(false),
\* setCurrentIndex(prev => prev + 1); a call of reviewCard made while no
\* StudySession is shown has another caller
handleRateResume(e) ==
    IF e.awaited /\ e.call.op = "reviewCard" /\ ~loading
    THEN /\ isFlipped' = FALSE
         /\ currentIndex' = currentIndex + 1
    ELSE UNCHANGED <<currentIndex, isFlipped>>

\* a write completes: the slot holds its bytes, and the handler that awaited
\* it goes on (init sets isReady, importDeck inserts the cards, every other
\* handler returns)
Written ==
    /\ pending # <<>>
    /\ LET k == Oldest(pending)
           e == pending[k]
           rest == Drop(pending, k)
       IN /\ stored' = e.snap
          /\ slotNo' = e.no
          /\ IF ~e.awaited
             THEN /\ pending' = rest
                  /\ UNCHANGED <<isReady, cards, seq, foreign_keys, lastOp>>
             ELSE IF e.call.op = "init"
             THEN /\ isReady' = TRUE
                  /\ pending' = rest
                  /\ lastOp' = e.call
                  /\ UNCHANGED <<cards, seq, foreign_keys>>
             ELSE IF e.doc # NoDoc
             THEN /\ importResume(e, rest)
                  /\ UNCHANGED isReady
             ELSE /\ pending' = rest
                  /\ lastOp' = e.call
                  /\ UNCHANGED <<isReady, cards, seq, foreign_keys>>
          /\ handleRateResume(e)
    /\ UNCHANGED <<dbOpen, decks, logs, now, serial, lost>>
    /\ UNCHANGED <<initCalls, queue, loading, sm2>>

\* a write is rejected (quota, storage error): the handler that awaited it
\* throws to its caller; init catches the rejection of the migration's save
\* together with the ALTER TABLE error, and nobody awaits the first save of a
\* new database
Rejected ==
    /\ pending # <<>>
    /\ LET k == Oldest(pending)
           e == pending[k]
       IN /\ pending' = Drop(pending, k)
          /\ IF ~e.awaited
             THEN /\ lost' = TRUE
                  /\ UNCHANGED <<isReady, lastOp>>
             ELSE IF e.call.op = "init"
             THEN /\ lost' = TRUE
                  /\ isReady' = TRUE
                  /\ lastOp' = e.call
             ELSE /\ lastOp' = [e.call EXCEPT !.ok = FALSE]
                  /\ UNCHANGED <<isReady, lost>>
    /\ UNCHANGED <<dbOpen, foreign_keys, decks, cards, logs, seq, stored, now, serial,
                   slotNo>>
    /\ UNCHANGED client

(***************************************************************************)
(* The callers: inputs drawn from small sets                               *)
(***************************************************************************)
Names == {"D"}
\* names the form or a caller of the exported db can pass; !name.trim() is
\* true of the first two
BlankNames == {"", " "}
IsBlank(name) == name \in BlankNames

\* DeckList.handleCreate: if (!newDeckName.trim()) return; else createDeck
handleCreate(name, description) == ~IsBlank(name) /\ createDeck(name, description)
Ratings == 1..4

\* what CardEditor can pass: texts without images, or a picked file on the
\* front and a picked zero-byte file on the back
TextOnly == [front_text |-> "Q", front_image |-> Null,
             back_text |-> "A", back_image |-> Null]
Pictures == [front_text |-> "", front_image |-> Some(<<255, 216>>),
             back_text |-> "A", back_image |-> Some(<<>>)]
Contents == {TextOnly, Pictures}

CardArg(id, deckId, content) ==
    [id |-> id, deck_id |-> deckId, front_text |-> content.front_text,
     front_image |-> content.front_image, back_text |-> content.back_text,
     back_image |-> content.back_image]

\* { ...cardToEdit, front_text, front_image, back_text, back_image }: the Card
\* the editor was opened with (here: as it was when it was created on the
\* first day, whatever happened to the row since) with the form's content
EditorCard(id, deckId, content) ==
    [id |-> id, deck_id |-> deckId, front_text |-> content.front_text,
     front_image |-> content.front_image, back_text |-> content.back_text,
     back_image |-> content.back_image, created_at |-> T0, next_review_due |-> T0,
     interval |-> 0, ease_factor |-> EaseDefault, reviews |-> 0]

\* a Partial<Card> that carries the scheduling state of a card studied before
CopiedCard(deckId, content) ==
    [EditorCard(0, deckId, content) EXCEPT !.next_review_due = T0 + 6 * DayMs,
                                           !.interval = 6,
                                           !.ease_factor = EaseFloor,
                                           !.reviews = 2]

\* files that are not deck bundles
GoodEntry == [isObject |-> TRUE, front_text |-> "Q", back_text |-> "A",
              front_image |-> Null, back_image |-> Null]
BadImageEntry == [GoodEntry EXCEPT !.front_image = Some(<<19, 65>>)]
NullEntry == [GoodEntry EXCEPT !.isObject = FALSE]
GoodDoc == [kind |-> "object", hasName |-> TRUE, name |-> "D", description |-> "",
            version |-> 1, exported_at |-> T0, cardsKind |-> "array",
            cards |-> <<GoodEntry>>]
RejectedDocs ==
    { [GoodDoc EXCEPT !.kind = "unparseable"],
      [GoodDoc EXCEPT !.kind = "null"],
      [GoodDoc EXCEPT !.hasName = FALSE],
      [GoodDoc EXCEPT !.cardsKind = "absent", !.cards = <<>>],
      [GoodDoc EXCEPT !.cardsKind = "other", !.cards = <<>>] }
FailingDocs ==
    { [GoodDoc EXCEPT !.cards = <<GoodEntry, BadImageEntry>>],
      [GoodDoc EXCEPT !.cards = <<NullEntry>>] }

(***************************************************************************)
(* Spec: decks, cards and logs under the store's operations, with reloads  *)
(***************************************************************************)
CreateDeck == \E n \in Names : seq.decks < MaxDecks /\ createDeck(n, "")
DeleteDeck == \E id \in 1..MaxDecks : deleteDeck(id)
CreateCard ==
    \E d \in 1..MaxDecks :
        seq.cards < MaxCards /\ createCard(CardArg(0, d, TextOnly)) /\ now' = now
UpdateCard == updateCard(CardArg(1, 0, Pictures))
DeleteCard == \E id \in 1..MaxCards : deleteCard(id)
ReviewCard == \E id \in 1..MaxCards, r \in Ratings : seq.logs < MaxLogs /\ reviewCard(id, r)

Next ==
    \/ InitDb
    \/ Reload
    \/ CreateDeck
    \/ DeleteDeck
    \/ CreateCard
    \/ UpdateCard
    \/ DeleteCard
    \/ ReviewCard

Spec == Init /\ [][Next]_vars

(***************************************************************************)
(* SpecBundle: one deck is filled on the first day and then reviewed, and  *)
(* bundles are imported: a deck's own export, files that are no bundle,    *)
(* and bundles with an entry that cannot be inserted                       *)
(***************************************************************************)
OwnDeck == now = T0 /\ seq.decks = 0 /\ createDeck("D", "")
AddCard ==
    \E c \in Contents :
        /\ now = T0
        /\ 1 \in DOMAIN decks
        /\ Cardinality(CardsOfDeck(cards, 1)) < MaxBundleCards
        /\ seq.logs = 0
        /\ createCard(CardArg(0, 1, c))
        /\ now' = now
ReviewOnce ==
    \E id \in CardsOfDeck(cards, 1) : seq.logs < MaxBundleLogs /\ reviewCard(id, 3)
ImportExported ==
    \E id \in DOMAIN decks :
        /\ seq.decks < MaxBundleDecks
        /\ importDeck(ExportDoc(decks, cards, id, now), id)
ImportRejected == \E doc \in RejectedDocs : importDeck(doc, 0)
ImportFailing == \E doc \in FailingDocs : seq.decks < MaxBundleDecks /\ importDeck(doc, -1)
NextDay == now < T0 + MaxDays * DayMs /\ Tick(DayMs)

BundleNext ==
    \/ InitDb
    \/ OwnDeck
    \/ AddCard
    \/ ReviewOnce
    \/ ImportExported
    \/ ImportRejected
    \/ ImportFailing
    \/ NextDay

SpecBundle == Init /\ [][BundleNext]_vars

(***************************************************************************)
(* SpecDue: two decks whose cards are created on the first day and         *)
(* reviewed on different days                                              *)
(***************************************************************************)
TwoDecks == now = T0 /\ seq.decks < 2 /\ createDeck("D", "")
DueCard ==
    \E d \in 1..2 :
        /\ now = T0
        /\ seq.decks = 2
        /\ seq.cards < MaxDueCards
        /\ createCard(CardArg(0, d, TextOnly))
        /\ now' = now
DueReview ==
    \E id \in DOMAIN cards, r \in {1, 3} : seq.logs < MaxDueLogs /\ reviewCard(id, r)
DueDay == now < T0 + MaxDueDays * DayMs /\ Tick(DayMs)

DueNext ==
    \/ InitDb
    \/ TwoDecks
    \/ DueCard
    \/ DueReview
    \/ DueDay

SpecDue == Init /\ [][DueNext]_vars

(***************************************************************************)
(* SpecEase: one card reviewed many times, with edits and an import        *)
(***************************************************************************)
EaseReview ==
    \E r \in Ratings :
        /\ 1 \in DOMAIN cards
        /\ cards[1].reviews < MaxEaseReviews
        /\ NextInterval(cards[1], r) <= MaxInterval
        /\ reviewCard(1, r)
EaseEdit ==
    /\ 1 \in DOMAIN cards
    /\ updateCard(CardArg(1, 0, IF cards[1].front_text = "Q" THEN Pictures ELSE TextOnly))
EaseImport ==
    /\ seq.decks = 1
    /\ seq.cards = 1
    /\ importDeck(ExportDoc(decks, cards, 1, now), 1)

(***************************************************************************)
(* SpecSched: one card, created on the first day and reviewed over a week; *)
(* the clock is read just before and at every day boundary                 *)
(***************************************************************************)
FirstDeck == now = T0 /\ seq.decks = 0 /\ createDeck("D", "")
FirstCard ==
    /\ now = T0
    /\ seq.decks = 1
    /\ seq.cards = 0
    /\ createCard(CardArg(0, 1, TextOnly))
    /\ now' = now
Review ==
    \E r \in Ratings :
        /\ 1 \in DOMAIN cards
        /\ cards[1].reviews < MaxReviews
        /\ NextInterval(cards[1], r) <= MaxInterval
        /\ reviewCard(1, r)
BeforeMidnight ==
    /\ now < T0 + MaxSchedDays * DayMs
    /\ (now - T0) % DayMs = 0
    /\ Tick(DayMs - 1)
Midnight == (now - T0) % DayMs # 0 /\ Tick(1)

SchedNext ==
    \/ InitDb
    \/ FirstDeck
    \/ FirstCard
    \/ Review
    \/ BeforeMidnight
    \/ Midnight

SpecSched == Init /\ [][SchedNext]_vars

EaseNext ==
    \/ InitDb
    \/ FirstDeck
    \/ FirstCard
    \/ EaseReview
    \/ EaseEdit
    \/ EaseImport

SpecEase == Init /\ [][EaseNext]_vars

(***************************************************************************)
(* SpecCatalog: two decks are created, possibly on different days, the     *)
(* second one through the form or by a direct call of the store; then      *)
(* cards are added, and then reviewed and edited as the days pass          *)
(***************************************************************************)
CatDeck ==
    \E n \in Names \cup BlankNames :
        seq.decks < 2 /\ seq.cards = 0 /\ handleCreate(n, "")
\* a call of the exported db.createDeck that does not come from the form
CatDeckDirect ==
    seq.decks = 1 /\ seq.cards = 0 /\ createDeck(" ", "")
CatCard ==
    \E d \in DOMAIN decks :
        /\ seq.cards < MaxCatCards
        /\ seq.logs = 0
        /\ createCard(CopiedCard(d, TextOnly))
        /\ seq.cards = 0 \/ now' = now
CatEdit == \E id \in DOMAIN cards : updateCard(EditorCard(id, 0, Pictures))
CatReview ==
    \E id \in DOMAIN cards, r \in {1, 3} : seq.logs < MaxCatLogs /\ reviewCard(id, r)
CatDay == now < T0 + MaxCatDays * DayMs /\ seq.decks >= 1 /\ Tick(DayMs)

CatalogNext ==
    \/ InitDb
    \/ CatDeck
    \/ CatDeckDirect
    \/ CatCard
    \/ CatEdit
    \/ CatReview
    \/ CatDay

SpecCatalog == Init /\ [][CatalogNext]_vars

(***************************************************************************)
(* SpecAsync: the application is loaded; once init has returned, handlers   *)
(* are started while the writes of earlier ones are still in flight, the   *)
(* writes complete, and the page may be reloaded at any time               *)
(***************************************************************************)
InitAsync ==
    /\ dbOpen = FALSE
    /\ isReady = FALSE
    /\ foreign_keys = FALSE
    /\ decks = NoRows
    /\ cards = NoRows
    /\ logs = NoRows
    /\ seq = NoSeq
    /\ stored = NoSnapshot
    /\ now = T0
    /\ lastOp = NoOp
    /\ serial = FALSE
    /\ pending = <<>>
    /\ slotNo = 0
    /\ lost = FALSE
    /\ NoClient

\* App shows the user interface when init has returned
Loaded == isReady /\ Len(pending) < MaxInFlight /\ NextNo <= MaxExports

Boot == ~dbOpen /\ InitDb
StartCreateDeck == Loaded /\ seq.decks < MaxAsyncDecks /\ createDeck("D", "")
StartDeleteDeck == \E id \in DOMAIN decks : Loaded /\ deleteDeck(id)
StartCreateCard ==
    \E d \in DOMAIN decks :
        /\ Loaded
        /\ seq.cards < MaxAsyncCards
        /\ createCard(CardArg(0, d, TextOnly))
        /\ now' = now
StartUpdateCard == \E id \in DOMAIN cards : Loaded /\ updateCard(CardArg(id, 0, Pictures))
StartDeleteCard == \E id \in DOMAIN cards : Loaded /\ deleteCard(id)
StartReview ==
    \E id \in DOMAIN cards, r \in Ratings :
        Loaded /\ seq.logs < MaxAsyncLogs /\ reviewCard(id, r)
StartImport ==
    \E doc \in {GoodDoc} \cup FailingDocs :
        /\ Loaded
        /\ seq.decks < MaxAsyncDecks
        /\ seq.cards < MaxAsyncCards
        /\ importStart(doc, IF doc = GoodDoc THEN 0 ELSE -1)

AsyncNext ==
    \/ Boot
    \/ Reload
    \/ StartCreateDeck
    \/ StartDeleteDeck
    \/ StartCreateCard
    \/ StartUpdateCard
    \/ StartDeleteCard
    \/ StartReview
    \/ StartImport
    \/ Written

SpecAsync == InitAsync /\ [][AsyncNext]_vars

(***************************************************************************)
(* SpecFail: the slot is empty or holds a database of the version before   *)
(* the description column; the writes may be rejected by the storage       *)
(***************************************************************************)
InitFail ==
    /\ dbOpen = FALSE
    /\ isReady = FALSE
    /\ foreign_keys = FALSE
    /\ decks = NoRows
    /\ cards = NoRows
    /\ logs = NoRows
    /\ seq = NoSeq
    /\ stored \in {NoSnapshot, LegacySnapshot}
    /\ now = T0
    /\ lastOp = NoOp
    /\ serial = FALSE
    /\ pending = <<>>
    /\ slotNo = 0
    /\ lost = FALSE
    /\ NoClient

Shown == isReady /\ Len(pending) < MaxInFlight

FailDeck == Shown /\ seq.decks < MaxFailDecks /\ createDeck("D", "")
FailCard ==
    \E d \in DOMAIN decks :
        /\ Shown
        /\ seq.cards < MaxFailCards
        /\ createCard(CardArg(0, d, TextOnly))
        /\ now' = now
FailReview ==
    \E id \in DOMAIN cards :
        Shown /\ seq.logs < MaxFailLogs /\ reviewCard(id, 3)

FailNext ==
    \/ Boot
    \/ FailDeck
    \/ FailCard
    \/ FailReview
    \/ Written
    \/ Rejected

SpecFail == InitFail /\ [][FailNext]_vars

(***************************************************************************)
(* SpecRace: the store is used for the first time by several callers at    *)
(* once: init() and createDeck calls are started before the database is    *)
(* open, and further decks are created once it is                          *)
(***************************************************************************)
\* an init() call made by createDeck has just returned: createDeck goes on in
\* the same turn of the event loop, before anything else runs
Due == lastOp.op = "init" /\ lastOp.src = 1

FirstInit == Len(initCalls) < MaxInits /\ initStart(0)
FirstCreateDeck == Len(initCalls) < MaxInits /\ initStart(1)
InitResumes == ~Due /\ initResume
CreateDeckGoesOn == Due /\ seq.decks < MaxRaceDecks + 1 /\ createDeck("D", "")
RaceDeck == dbOpen /\ isReady /\ ~Due /\ seq.decks < MaxRaceDecks /\ createDeck("D", "")
RaceWritten == ~Due /\ Written

RaceNext ==
    \/ FirstInit
    \/ FirstCreateDeck
    \/ InitResumes
    \/ CreateDeckGoesOn
    \/ RaceDeck
    \/ RaceWritten

SpecRace == InitAsync /\ [][RaceNext]_vars

(***************************************************************************)
(* SpecStudy: a deck is filled, a study session is opened on it, the user  *)
(* turns the cards and presses the rating buttons, also while the call of  *)
(* an earlier press still awaits its save                                  *)
(***************************************************************************)
\* the loadCards effect: const cards = await db.getDueCards(deckId);
\* setQueue(cards); setLoading(false)
loadCards(deckId) ==
    /\ dbOpen
    /\ loading
    /\ LET due == getDueCards(cards, deckId, now)
       IN queue' = [k \in 1..Len(due) |-> due[k].id]
    /\ loading' = FALSE
    /\ UNCHANGED <<dbOpen, isReady, foreign_keys, decks, cards, logs, seq, stored, now,
                   lastOp, serial, pending, slotNo, lost>>
    /\ UNCHANGED <<initCalls, currentIndex, isFlipped, sm2>>

\* the card is clicked: !isFlipped && setIsFlipped(true)
flip ==
    /\ ~loading
    /\ currentIndex < Len(queue)
    /\ ~isFlipped
    /\ isFlipped' = TRUE
    /\ UNCHANGED <<dbOpen, isReady, foreign_keys, decks, cards, logs, seq, stored, now,
                   lastOp, serial, pending, slotNo, lost>>
    /\ UNCHANGED <<initCalls, queue, currentIndex, loading, sm2>>

\* a rating button is pressed (the buttons are rendered while a card is
\* shown flipped): handleRate up to "await db.reviewCard(card.id, rating)"
handleRate(rating) ==
    /\ ~loading
    /\ isFlipped
    /\ currentIndex < Len(queue)
    /\ reviewCard(queue[currentIndex + 1], rating)

StudyDeck == isReady /\ loading /\ seq.decks = 0 /\ createDeck("D", "")
StudyCard ==
    /\ isReady
    /\ loading
    /\ seq.decks = 1
    /\ pending = <<>>
    /\ seq.cards < MaxStudyCards
    /\ createCard(CardArg(0, 1, TextOnly))
    /\ now' = now
StartStudy == isReady /\ pending = <<>> /\ seq.cards >= 1 /\ loadCards(1)
Flip == flip
Rate == \E r \in {1, 3} : Len(pending) < MaxInFlight /\ handleRate(r)

StudyNext ==
    \/ Boot
    \/ StudyDeck
    \/ StudyCard
    \/ StartStudy
    \/ Flip
    \/ Rate
    \/ Written

SpecStudy == InitAsync /\ [][StudyNext]_vars

(***************************************************************************)
(* SpecSm2: the scheduling state of one new card under every sequence of   *)
(* ratings; the due date is left out, so that intervals of more than 24    *)
(* days can be followed                                                    *)
(***************************************************************************)
RateAgain ==
    /\ sm2.reviews < MaxSm2Reviews
    /\ sm2' = Sm2Step(sm2, 1)
    /\ UNCHANGED <<dbOpen, isReady, foreign_keys, decks, cards, logs, seq, stored, now,
                   lastOp, serial, pending, slotNo, lost>>
    /\ UNCHANGED <<initCalls, queue, currentIndex, isFlipped, loading>>
RatePass ==
    \E r \in Ratings \ {1} :
        /\ sm2.reviews < MaxSm2Reviews
        /\ sm2' = Sm2Step(sm2, r)
        /\ UNCHANGED <<dbOpen, isReady, foreign_keys, decks, cards, logs, seq, stored, now,
                       lastOp, serial, pending, slotNo, lost>>
        /\ UNCHANGED <<initCalls, queue, currentIndex, isFlipped, loading>>

Sm2Next ==
    \/ RateAgain
    \/ RatePass

SpecSm2 == Init /\ [][Sm2Next]_vars

(***************************************************************************)
(* Properties                                                              *)
(***************************************************************************)
EasyDays == 7

\* the ids of a query result
Ids(rows) == {rows[k].id : k \in 1..Len(rows)}
\* the step is a call of op that did something new
Did(op) == lastOp' # lastOp /\ lastOp'.op = op
\* the number of reviews with rating >= 2 logged for a card
Successes(l, cardId) ==
    Cardinality({k \in DOMAIN l : l[k].card_id = cardId /\ l[k].rating >= 2})

\* C1: every stored card has ease_factor >= 1.3, whatever was created,
\* imported, edited and reviewed with whatever rating
C1_EaseFloor == \A i \in DOMAIN cards : cards[i].ease_factor >= EaseFloor

\* a review on the rating >= 2 branch that ended on the floor
C1_Witness ==
    /\ lastOp.op = "reviewCard"
    /\ lastOp.rating = 2
    /\ lastOp.id \in DOMAIN cards
    /\ cards[lastOp.id].ease_factor = EaseFloor

\* C2: a reviewCard call on an existing card adds exactly 1 to its reviews,
\* for every rating; no other step changes the reviews of a card
C2_ReviewsCount ==
    [][\A i \in (DOMAIN cards) \cap (DOMAIN cards') :
          cards'[i].reviews =
              IF Did("reviewCard") /\ lastOp'.id = i
              THEN cards[i].reviews + 1 ELSE cards[i].reviews]_vars

\* a failed review was counted while another card was stored
C2_Witness ==
    /\ lastOp.op = "reviewCard"
    /\ lastOp.rating = 1
    /\ lastOp.id \in DOMAIN cards
    /\ cards[lastOp.id].reviews = 1
    /\ Cardinality(DOMAIN cards) >= 2

\* C3: reviewCard with rating 1 sets interval to 0 and next_review_due to the
\* time of the review, so that getDueCards returns the card right away, and
\* ease_factor becomes max(1.3, ease_factor - 0.2)
C3_Again ==
    [][\A i \in DOMAIN cards :
          (Did("reviewCard") /\ lastOp'.id = i /\ lastOp'.rating = 1)
          => /\ cards'[i].interval = 0
             /\ cards'[i].next_review_due = now'
             /\ i \in Ids(getDueCards(cards', cards'[i].deck_id, now'))
             /\ cards'[i].ease_factor = Max(EaseFloor, cards[i].ease_factor - EaseFail)]_vars

\* a card that had passed a review failed one
C3_Witness ==
    /\ lastOp.op = "reviewCard"
    /\ lastOp.rating = 1
    /\ lastOp.id \in DOMAIN cards
    /\ Successes(logs, lastOp.id) >= 1
    /\ cards[lastOp.id].interval = 0

\* C4: a review with rating >= 2 of a card with reviews = 0 yields interval 1,
\* and one of a card with exactly one earlier review of rating >= 2 yields
\* interval 6, however many reviews of rating 1 the card had
C4_FirstIntervals ==
    (lastOp.op = "reviewCard" /\ lastOp.rating >= 2 /\ lastOp.id \in DOMAIN cards)
    => /\ cards[lastOp.id].reviews = 1 => cards[lastOp.id].interval = 1
       /\ Successes(logs, lastOp.id) = 2 => cards[lastOp.id].interval = 6

\* C5: after deleteDeck(id) no card of that deck and no log of such a card is
\* left: getCards(id) and getDueCards(id) are empty
C5_DeleteDeckCascades ==
    lastOp.op = "deleteDeck"
    => /\ getCards(cards, lastOp.id) = <<>>
       /\ getDueCards(cards, lastOp.id, now) = <<>>
       /\ \A l \in DOMAIN logs :
             logs[l].card_id \in DOMAIN cards
             => cards[logs[l].card_id].deck_id # lastOp.id

\* C6: an importDeck call that fails while inserting a card leaves the store
\* as it was: no new deck, no new card, in memory and in the slot
C6_FailedImportLeavesNothing ==
    [][(Did("importDeck") /\ lastOp'.src = -1)
       => /\ ~lastOp'.ok
          /\ decks' = decks
          /\ cards' = cards
          /\ stored' = stored]_vars

C8_RoundTrip ==
    [][(Did("importDeck") /\ lastOp'.src >= 1)
       => LET old == getCards(cards, lastOp'.src)
              new == getCards(cards', lastOp'.out)
          IN /\ lastOp'.ok
             /\ Len(new) = Len(old)
             /\ \A k \in 1..Len(new) :
                   /\ k <= Len(old)
                   /\ new[k].front_text = old[k].front_text
                   /\ new[k].back_text = old[k].back_text
                   /\ new[k].front_image = old[k].front_image
                   /\ new[k].back_image = old[k].back_image
                   /\ new[k].reviews = 0
                   /\ new[k].interval = 0
                   /\ new[k].ease_factor = EaseDefault
                   /\ new[k].next_review_due = now']_vars

\* C9: getDueCards(deckId) returns exactly the cards of the deck with
\* next_review_due <= now, each once, in ascending order of next_review_due
C9_DueCards ==
    \A d \in DOMAIN decks :
        LET due == getDueCards(cards, d, now) IN
        /\ Ids(due) = {i \in DOMAIN cards :
                          cards[i].deck_id = d /\ cards[i].next_review_due <= now}
        /\ Len(due) = Cardinality(Ids(due))
        /\ \A k \in 1..Len(due) : due[k] = cards[due[k].id]
        /\ \A k \in 1..Len(due) - 1 : due[k].next_review_due <= due[k + 1].next_review_due

\* two due cards of a deck come in the order of their due times, not of their
\* ids, while a third card is not due or belongs to the other deck
C9_Witness ==
    \E d \in DOMAIN decks :
        LET due == getDueCards(cards, d, now) IN
        /\ Len(due) = 2
        /\ due[1].id > due[2].id
        /\ due[1].next_review_due < due[2].next_review_due
        /\ Cardinality(DOMAIN cards) >= 3

\* C10: a card reviewed with rating 4 gets interval 7 and is not returned by
\* getDueCards earlier than 7 days after the review
C10_EasySevenDays ==
    (lastOp.op = "reviewCard" /\ lastOp.rating = 4 /\ lastOp.id \in DOMAIN cards)
    => /\ cards[lastOp.id].interval = EasyDays
       /\ now < logs[lastOp.out].reviewed_at + EasyDays * DayMs
          => lastOp.id \notin Ids(getDueCards(cards, cards[lastOp.id].deck_id, now))

\* the call is in the exported database
Contains(snap, call) ==
    CASE call.op = "createDeck" -> call.out \in DOMAIN snap.decks
      [] call.op = "deleteDeck" -> call.id \notin DOMAIN snap.decks
      [] call.op = "createCard" -> call.out \in DOMAIN snap.cards
      [] call.op = "updateCard" ->
            /\ call.id \in DOMAIN snap.cards
            /\ snap.cards[call.id].front_image = Pictures.front_image
      [] call.op = "deleteCard" -> call.id \notin DOMAIN snap.cards
      [] call.op = "reviewCard" ->
            /\ call.out \in DOMAIN snap.logs
            /\ snap.logs[call.out].card_id = call.id
            /\ snap.logs[call.out].rating = call.rating
      [] call.op = "importDeck" -> CardsOfDeck(snap.cards, call.out) # {}
      [] OTHER -> FALSE

C12_UpdateFrame ==
    [][lastOp'.op = "updateCard"
       => /\ DOMAIN cards' = DOMAIN cards
          /\ \A i \in DOMAIN cards :
                IF i = lastOp'.id
                THEN /\ cards'[i].next_review_due = cards[i].next_review_due
                     /\ cards'[i].interval = cards[i].interval
                     /\ cards'[i].ease_factor = cards[i].ease_factor
                     /\ cards'[i].reviews = cards[i].reviews
                     /\ cards'[i].deck_id = cards[i].deck_id
                     /\ cards'[i].created_at = cards[i].created_at
                     /\ cards'[i].id = cards[i].id
                ELSE cards'[i] = cards[i]
          /\ decks' = decks
          /\ logs' = logs
          /\ seq' = seq]_vars

\* a reviewed card was edited with the Card the editor had from before the
\* review, while another card was stored
C12_Witness ==
    /\ lastOp.op = "updateCard"
    /\ lastOp.id \in DOMAIN cards
    /\ cards[lastOp.id].reviews = 1
    /\ cards[lastOp.id].interval = 1
    /\ cards[lastOp.id].front_image = Pictures.front_image
    /\ \E j \in DOMAIN cards : j # lastOp.id /\ cards[j].front_text = "Q"

\* C13: a card made by createCard starts with reviews 0, interval 0,
\* ease_factor 2.5 and next_review_due equal to its creation time, whatever
\* scheduling values the argument has, and getDueCards of its deck returns it
\* right after the call
C13_NewCardDefaults ==
    [][(Did("createCard") /\ lastOp'.ok)
       => /\ lastOp'.out \notin DOMAIN cards
          /\ lastOp'.out \in DOMAIN cards'
          /\ LET card == cards'[lastOp'.out] IN
             /\ card.reviews = 0
             /\ card.interval = 0
             /\ card.ease_factor = EaseDefault
             /\ card.next_review_due = card.created_at
             /\ card.id \in Ids(getDueCards(cards', card.deck_id, now'))]_vars

\* C14: createCard with a deck_id that is not the id of a stored deck fails
\* in every state and inserts nothing: tables and slot stay as they were
C14_MissingDeckRejected ==
    [][(lastOp'.op = "createCard" /\ lastOp'.src \notin DOMAIN decks)
       => /\ ~lastOp'.ok
          /\ cards' = cards
          /\ decks' = decks
          /\ logs' = logs
          /\ seq' = seq
          /\ stored' = stored]_vars

\* C15: createDeck with a name that is empty after trimming fails and creates
\* no deck, so that every stored deck has a name that is not blank
C15_NoBlankDeckName ==
    /\ \A d \in DOMAIN decks : ~IsBlank(decks[d].name)
    /\ (lastOp.op = "createDeck" /\ lastOp.out \in DOMAIN decks
        /\ IsBlank(decks[lastOp.out].name)) => ~lastOp.ok

\* C17: getDecks returns every deck once, newest first, each with the counts
\* of its cards as they are when asked: all, due (next_review_due <= now),
\* new (reviews = 0) and learned (reviews > 0); so card_count is new_count +
\* learned_count and due_count is at most card_count
C17_DeckList ==
    LET list == getDecks(decks, cards, now) IN
    /\ Ids(list) = DOMAIN decks
    /\ Len(list) = Cardinality(DOMAIN decks)
    /\ \A k \in 1..Len(list) - 1 : list[k].created_at >= list[k + 1].created_at
    /\ \A k \in 1..Len(list) :
          LET own == {i \in DOMAIN cards : cards[i].deck_id = list[k].id} IN
          /\ list[k].name = decks[list[k].id].name
          /\ list[k].created_at = decks[list[k].id].created_at
          /\ list[k].card_count = Cardinality(own)
          /\ list[k].due_count = Cardinality({i \in own : cards[i].next_review_due <= now})
          /\ list[k].new_count = Cardinality({i \in own : cards[i].reviews = 0})
          /\ list[k].learned_count = Cardinality({i \in own : cards[i].reviews >= 1})
          /\ list[k].card_count = list[k].new_count + list[k].learned_count
          /\ list[k].due_count <= list[k].card_count

\* the deck created on the later day comes first, and the older deck has a
\* new card that is due and a learned card that is not
C17_Witness ==
    LET list == getDecks(decks, cards, now) IN
    /\ Len(list) = 2
    /\ list[1].id = 2
    /\ list[1].created_at > list[2].created_at
    /\ list[2].card_count = 2
    /\ list[2].due_count = 1
    /\ list[2].new_count = 1
    /\ list[2].learned_count = 1

\* C18: reviewCard and updateCard with an id that is not the id of a stored
\* card give the caller a not-found error and change no card and no log
C18_UnknownCardIsError ==
    [][(lastOp'.op \in {"reviewCard", "updateCard"} /\ lastOp'.id \notin DOMAIN cards)
       => /\ ~lastOp'.ok
          /\ cards' = cards
          /\ logs' = logs]_vars

\* C19: deleteDeck and deleteCard with an id that is not stored (never made,
\* or deleted before) raise no error and leave decks, cards and logs as they
\* were
C19_DeleteIdempotent ==
    [][/\ (lastOp'.op = "deleteDeck" /\ lastOp'.id \notin DOMAIN decks)
          => /\ lastOp'.ok
             /\ decks' = decks
             /\ cards' = cards
             /\ logs' = logs
       /\ (lastOp'.op = "deleteCard" /\ lastOp'.id \notin DOMAIN cards)
          => /\ lastOp'.ok
             /\ decks' = decks
             /\ cards' = cards
             /\ logs' = logs]_vars

\* deleteDeck was called for a deck deleted before, while a card that names
\* that deck and a log of the card were stored
C19_Witness ==
    /\ lastOp.op = "deleteDeck"
    /\ lastOp.ok
    /\ lastOp.id <= seq.decks
    /\ lastOp.id \notin DOMAIN decks
    /\ \E i \in DOMAIN cards : cards[i].deck_id = lastOp.id /\ cards[i].reviews = 1
    /\ DOMAIN logs # {}

\* the card as createCard stored it
AsCreated(card) ==
    [card EXCEPT !.next_review_due = card.created_at, !.interval = 0,
                 !.ease_factor = EaseDefault, !.reviews = 0]

\* one review applied to a card, as a call that runs alone applies it
AfterReview(card, log) ==
    [card EXCEPT !.next_review_due = log.reviewed_at
                                        + NextInterval(card, log.rating) * DayMs,
                 !.interval = NextInterval(card, log.rating),
                 !.ease_factor = NextEase(card, log.rating),
                 !.reviews = card.reviews + 1]

\* the reviews with log ids in S applied one after the other, in log order
RECURSIVE OneAfterTheOther(_, _, _)
OneAfterTheOther(card, l, S) ==
    IF S = {} THEN card
    ELSE LET m == CHOOSE i \in S : \A j \in S : i <= j
         IN OneAfterTheOther(AfterReview(card, l[m]), l, S \ {m})

\* C16: reviewCard calls of one card that are in flight together do not
\* interleave their read-modify-write: the card is what the calls, run one
\* after the other, make of it (reviews counts every call, every call has its
\* log row, each scheduling is computed from the result of the one before)
C16_ReviewsSerialized ==
    \A i \in DOMAIN cards :
        LET mine == LogsOfCards(logs, {i}) IN
        /\ cards[i].reviews = Cardinality(mine)
        /\ cards[i] = OneAfterTheOther(AsCreated(cards[i]), logs, mine)

\* two reviewCard calls of the same card are awaiting their writes at once
C16_Witness ==
    /\ Len(pending) = 2
    /\ pending[1].call.op = "reviewCard"
    /\ pending[2].call.op = "reviewCard"
    /\ pending[1].call.id = pending[2].call.id
    /\ pending[1].call.id \in DOMAIN cards
    /\ cards[pending[1].call.id].reviews = 2
    /\ cards[pending[1].call.id].interval = 6
    /\ Cardinality(LogsOfCards(logs, {pending[1].call.id})) = 2

\* C20: no failure inside the store goes unobserved: a rejected durable
\* write, during init or during a mutating operation, reaches the caller
\* that started it
C20_NoFailureLost == ~lost

\* C21: the slot never shows an imported deck with only part (or none) of its
\* cards: the write that brings the deck of an importable bundle into the slot
\* brings all of its cards with it, so that a reload at any suspension point
\* of importDeck finds no trace of the deck or the whole deck
C21_ImportAllOrNothing ==
    [][\A d \in (DOMAIN stored'.decks) \ (DOMAIN stored.decks) :
          (pending # <<>> /\ pending[1].doc # NoDoc /\ ~ImportFails(pending[1].doc))
          => Cardinality(CardsOfDeck(stored'.cards, d)) = Len(pending[1].doc.cards)]_vars

\* the last review logged for a card
LastLog(l, cardId) ==
    l[CHOOSE k \in LogsOfCards(l, {cardId}) : \A j \in LogsOfCards(l, {cardId}) : j <= k]

\* C24: a card reviewed at time t with resulting interval i has
\* next_review_due = t + i * 86,400,000; it is not in getDueCards and not
\* counted in the deck's due_count at any time before that instant, and it is
\* in both from that instant on, until it is reviewed again or deleted
C24_DueFromInterval ==
    \A i \in DOMAIN cards :
        (LogsOfCards(logs, {i}) # {} /\ cards[i].deck_id \in DOMAIN decks)
        => LET due == LastLog(logs, i).reviewed_at + cards[i].interval * DayMs
               list == getDueCards(cards, cards[i].deck_id, now)
               rows == getDecks(decks, cards, now)
           IN /\ cards[i].next_review_due = due
              /\ (now < due) => i \notin Ids(list)
              /\ (now >= due) => i \in Ids(list)
              /\ \A k \in 1..Len(rows) :
                    rows[k].id = cards[i].deck_id => rows[k].due_count = Len(list)

\* the clock stands exactly on the instant a reviewed card becomes due again
C24_Witness ==
    /\ 1 \in DOMAIN cards
    /\ LogsOfCards(logs, {1}) # {}
    /\ cards[1].interval >= 1
    /\ now = cards[1].next_review_due
    /\ Ids(getDueCards(cards, 1, now)) = {1}

\* the step is the start of a call of op (up to its await, or the whole call
\* when calls are made one at a time)
Started(op) == Did(op) /\ (serial \/ Len(pending') > Len(pending))

\* C25: the logs are append-only and in step with the counter: on an open
\* database a reviewCard call on a stored card appends exactly one row with
\* that card id, the rating and the time of the review; no step changes a
\* row; rows go only in a deleteCard or deleteDeck call; and every stored
\* card has as many log rows as its reviews says
C25_LogsAppendOnly ==
    [][/\ \A i \in DOMAIN cards' :
             Cardinality(LogsOfCards(logs', {i})) = cards'[i].reviews
       /\ (dbOpen /\ dbOpen')
          => /\ \A k \in (DOMAIN logs) \cap (DOMAIN logs') : logs'[k] = logs[k]
             /\ (DOMAIN logs) \subseteq (DOMAIN logs')
                \/ lastOp'.op \in {"deleteCard", "deleteDeck"}
             /\ (Started("reviewCard") /\ lastOp'.id \in DOMAIN cards)
                => /\ DOMAIN logs' = (DOMAIN logs) \cup {lastOp'.out}
                   /\ lastOp'.out \notin DOMAIN logs
                   /\ logs'[lastOp'.out].card_id = lastOp'.id
                   /\ logs'[lastOp'.out].rating = lastOp'.rating
                   /\ logs'[lastOp'.out].reviewed_at = now
             /\ ~Started("reviewCard") => (DOMAIN logs') \subseteq (DOMAIN logs)]_vars

\* a card was reviewed twice with different ratings, the second time after
\* it was edited, and has its two rows
C25_Witness ==
    /\ lastOp.op = "reviewCard"
    /\ lastOp.id \in DOMAIN cards
    /\ cards[lastOp.id].reviews = 2
    /\ cards[lastOp.id].front_image # Null
    /\ \E k1, k2 \in LogsOfCards(logs, {lastOp.id}) :
           k1 < k2 /\ logs[k1].rating = 1 /\ logs[k2].rating = 4

\* C26: reviewCard(cardId, rating) on a stored card changes next_review_due,
\* interval, ease_factor and reviews of that card only and appends one log
\* row: the texts, images, deck_id and created_at of the card, every other
\* card and every deck stay as they are
C26_ReviewFrame ==
    [][(Started("reviewCard") /\ lastOp'.id \in DOMAIN cards)
       => LET id == lastOp'.id IN
          /\ decks' = decks
          /\ DOMAIN cards' = DOMAIN cards
          /\ \A j \in (DOMAIN cards) \ {id} : cards'[j] = cards[j]
          /\ cards'[id].id = id
          /\ cards'[id].deck_id = cards[id].deck_id
          /\ cards'[id].created_at = cards[id].created_at
          /\ cards'[id].front_text = cards[id].front_text
          /\ cards'[id].front_image = cards[id].front_image
          /\ cards'[id].back_text = cards[id].back_text
          /\ cards'[id].back_image = cards[id].back_image
          /\ Cardinality(DOMAIN logs') = Cardinality(DOMAIN logs) + 1]_vars

\* a card with pictures was reviewed while its deck held a second card
C26_Witness ==
    /\ lastOp.op = "reviewCard"
    /\ lastOp.id \in DOMAIN cards
    /\ cards[lastOp.id].front_image # Null
    /\ cards[lastOp.id].reviews = 1
    /\ \E j \in DOMAIN cards :
          /\ j # lastOp.id
          /\ cards[j].deck_id = cards[lastOp.id].deck_id
          /\ cards[j].reviews = 0

\* C27: referential integrity holds in every state of an open database: the
\* deck_id of every card is the id of a stored deck and the card_id of every
\* log is the id of a stored card
C27_ReferentialIntegrity ==
    dbOpen => /\ \A i \in DOMAIN cards : cards[i].deck_id \in DOMAIN decks
              /\ \A k \in DOMAIN logs : logs[k].card_id \in DOMAIN cards

\* C28: a review with rating >= 2 yields interval >= 1 whatever the history
\* of the card, so that the card is not due again for at least one day
C28_PassLeavesDueList ==
    (lastOp.op = "reviewCard" /\ lastOp.rating >= 2 /\ lastOp.id \in DOMAIN cards)
    => /\ cards[lastOp.id].interval >= 1
       /\ cards[lastOp.id].next_review_due >= logs[lastOp.out].reviewed_at + DayMs
       /\ now < logs[lastOp.out].reviewed_at + DayMs
          => lastOp.id \notin Ids(getDueCards(cards, cards[lastOp.id].deck_id, now))

\* the rating of the review that led to the scheduling state s
LastRating(s) == s.ratings[Len(s.ratings)]

\* C22: a review with rating >= 2 of a card with reviews >= 2 sets interval
\* to old interval * old ease_factor rounded to the nearest integer, halves
\* upward, with the ease factor as it was before this review; three reviews
\* with rating 3 of a new card give intervals 1, 6, 15, ease 2.5 throughout
\* and reviews 1, 2, 3
C22_IntervalGrowth ==
    [][/\ (sm2.reviews >= 2 /\ LastRating(sm2') >= 2)
          => /\ 100 * sm2'.interval <= sm2.interval * sm2.ease_factor + 50
             /\ sm2.interval * sm2.ease_factor + 50 < 100 * sm2'.interval + 100
       /\ sm2'.ratings = <<3>>
          => sm2'.interval = 1 /\ sm2'.ease_factor = 250 /\ sm2'.reviews = 1
       /\ sm2'.ratings = <<3, 3>>
          => sm2'.interval = 6 /\ sm2'.ease_factor = 250 /\ sm2'.reviews = 2
       /\ sm2'.ratings = <<3, 3, 3>>
          => sm2'.interval = 15 /\ sm2'.ease_factor = 250 /\ sm2'.reviews = 3]_vars

\* the fourth rating 3 in a row met a half: 15 * 2.5 = 37.5 became 38
C22_Witness ==
    /\ sm2.ratings = <<3, 3, 3, 3>>
    /\ sm2.interval = 38
    /\ sm2.reviews = 4

\* C23: a review with rating >= 2 changes the ease factor by -0.14 (rating
\* 2), 0 (rating 3) or +0.10 (rating 4) and then raises it to 1.3 if it is
\* lower; nothing bounds it from above: n reviews with rating 4 of a new card
\* give 2.5 + 0.1 n
C23_EaseSteps ==
    [][/\ LastRating(sm2') >= 2
          => LET d == IF LastRating(sm2') = 2 THEN -14
                      ELSE IF LastRating(sm2') = 3 THEN 0 ELSE 10
             IN sm2'.ease_factor = Max(EaseFloor, sm2.ease_factor + d)
       /\ (\A k \in 1..Len(sm2'.ratings) : sm2'.ratings[k] = 4)
          => sm2'.ease_factor = EaseDefault + 10 * Len(sm2'.ratings)]_vars

\* four reviews with rating 4 in a row: 2.9
C23_Witness ==
    /\ sm2.ratings = <<4, 4, 4, 4>>
    /\ sm2.ease_factor = 290

\* C29: first use by several callers at once is safe: an init() call that
\* finishes on a database that is already open keeps the tables as the calls
\* before it left them, and no deck that reached the slot is taken out of it
\* again, so that no mutation that was applied is lost
C29_InitKeepsMutations ==
    [][/\ (dbOpen /\ Len(initCalls') < Len(initCalls))
          => decks' = decks /\ cards' = cards /\ logs' = logs /\ seq' = seq
       /\ (DOMAIN stored.decks) \subseteq (DOMAIN stored'.decks)]_vars

\* C30: in a study session every queued card is reviewed at most once,
\* currentIndex never exceeds the length of the queue, and every card the
\* session has moved past was rated, also when a rating button is pressed
\* again while the reviewCard call of the press before awaits its save
C30_EachCardRatedOnce ==
    /\ currentIndex <= Len(queue)
    /\ \A k \in 1..Len(queue) : Cardinality(LogsOfCards(logs, {queue[k]})) <= 1
    /\ \A k \in 1..Len(queue) :
          k <= currentIndex => Cardinality(LogsOfCards(logs, {queue[k]})) = 1

====
